---- MODULE Spec2Model ----
(***************************************************************************)
(* A model of hello.py: the advanced-vocabulary flashcard pipeline.        *)
(*                                                                         *)
(* Python strings are sequences of one-character strings, so that strip,   *)
(* lower, the regular expressions and the substring test are computed and  *)
(* not assumed.  JSON payloads are tagged records (t = "null", "str",      *)
(* "num", "list", "obj"); an exception raised while a payload is walked is *)
(* the value Raise, which every caller tests for where the code has its    *)
(* try/except.                                                             *)
(***************************************************************************)
EXTENDS Integers, Sequences, FiniteSets, TLC

VARIABLES
    pc,                 \* position in RSSScraper.run / fetch_definition
    net,                \* the network: per service, the responses it may give
    feeds,              \* what feedparser.parse yields for each of self.rss_feeds
    max_articles,       \* run's parameter
    spacy_ok,           \* whether spacy and fr_core_news_sm can be loaded
    common_file,        \* data/frequent_french_words.txt: its lines, or unreadable
    advanced_lemmas,    \* the module-level set built from FLELex
    articles,           \* run: the fetched articles
    i,                  \* run: index of the article being processed
    article_sentences,  \* self.article_sentences
    all_words,          \* run: candidate (lemma, pos) pairs of all articles
    sample,             \* run: the sorted random sample
    k,                  \* run: index of the sampled word being processed
    word,               \* the current word (argument of fetch_definition)
    definition,         \* run: local of the flashcard loop
    sentence,           \* run: local of the flashcard loop
    result,             \* what fetch_definition returned to run
    flashcards,         \* run: the records collected so far
    outfile,            \* data/advanced_flashcard_words.tsv: absent or its lines
    calls,              \* every source or service consulted so far, in order
    r,                  \* the last response of a remote service (the local r, w)
    raised              \* the exception that left the running function, or "none"

vars == <<pc, net, feeds, max_articles, spacy_ok, common_file, advanced_lemmas,
          articles, i, article_sentences, all_words, sample, k, word,
          definition, sentence, result, flashcards, outfile, calls, r, raised>>

-----------------------------------------------------------------------------
(* Python str operations, on sequences of characters. *)

UpperChars == <<"A", "B", "C", "D", "E", "F", "G", "H", "I", "J", "K", "L", "M",
                "N", "O", "P", "Q", "R", "S", "T", "U", "V", "W", "X", "Y", "Z", "É">>
LowerChars == <<"a", "b", "c", "d", "e", "f", "g", "h", "i", "j", "k", "l", "m",
                "n", "o", "p", "q", "r", "s", "t", "u", "v", "w", "x", "y", "z", "é">>

\* the code point of a character (the order Python compares strings by)
ord(c) ==
    IF \E n \in 1..26 : UpperChars[n] = c
    THEN 64 + (CHOOSE n \in 1..26 : UpperChars[n] = c)
    ELSE IF \E n \in 1..26 : LowerChars[n] = c
    THEN 96 + (CHOOSE n \in 1..26 : LowerChars[n] = c)
    ELSE CASE c = "\t" -> 9   [] c = " " -> 32  [] c = "!" -> 33  [] c = "#" -> 35
           [] c = "'" -> 39   [] c = "." -> 46  [] c = "5" -> 53  [] c = ":" -> 58
           [] c = ";" -> 59   [] c = "?" -> 63  [] c = "[" -> 91  [] c = "]" -> 93
           [] c = "{" -> 123  [] c = "|" -> 124 [] c = "}" -> 125 [] c = "É" -> 201
           [] c = "é" -> 233

lower_char(c) ==
    IF \E n \in DOMAIN UpperChars : UpperChars[n] = c
    THEN LowerChars[CHOOSE n \in DOMAIN UpperChars : UpperChars[n] = c]
    ELSE c

\* str.lower
lower(s) == [n \in 1..Len(s) |-> lower_char(s[n])]

\* the characters \s matches and strip removes
IsSpace(c) == c \in {" ", "\t"}

RECURSIVE lstrip(_)
lstrip(s) == IF s # <<>> /\ IsSpace(Head(s)) THEN lstrip(Tail(s)) ELSE s

RECURSIVE rstrip(_)
rstrip(s) ==
    IF s # <<>> /\ IsSpace(s[Len(s)]) THEN rstrip(SubSeq(s, 1, Len(s) - 1)) ELSE s

\* str.strip
strip(s) == rstrip(lstrip(s))

\* str.lstrip(chars)
RECURSIVE lstrip_chars(_, _)
lstrip_chars(s, cs) ==
    IF s # <<>> /\ Head(s) \in cs THEN lstrip_chars(Tail(s), cs) ELSE s

\* str.startswith
startswith(s, p) == Len(s) >= Len(p) /\ SubSeq(s, 1, Len(p)) = p

\* the substring test  w in s
contains(s, w) == \E n \in 0..(Len(s) - Len(w)) : SubSeq(s, n + 1, n + Len(w)) = w

\* the least index >= n of a character of cs in s, 0 when there is none
RECURSIVE Find(_, _, _)
Find(s, n, cs) ==
    IF n > Len(s) THEN 0 ELSE IF s[n] \in cs THEN n ELSE Find(s, n + 1, cs)

\* s from index n to its end
From(s, n) == SubSeq(s, n, Len(s))

\* lexicographic order of two strings by code point: s < t
RECURSIVE str_less(_, _)
str_less(s, t) ==
    IF t = <<>> THEN FALSE
    ELSE IF s = <<>> THEN TRUE
    ELSE IF Head(s) = Head(t) THEN str_less(Tail(s), Tail(t))
    ELSE ord(Head(s)) < ord(Head(t))

-----------------------------------------------------------------------------
(* _clean_wikicode: five substitutions, each leftmost and non-overlapping. *)

\* re.sub(r"\{\{[^}]*}}", "", text)
RECURSIVE sub_templates(_)
sub_templates(s) ==
    IF s = <<>> THEN <<>>
    ELSE LET j == Find(s, 3, {"}"})
         IN  IF /\ Len(s) >= 4
                /\ s[1] = "{" /\ s[2] = "{"
                /\ j # 0 /\ j < Len(s) /\ s[j + 1] = "}"
             THEN sub_templates(From(s, j + 2))
             ELSE <<Head(s)>> \o sub_templates(Tail(s))

\* re.sub(r"\[\[[^\]|]+\|([^]]+)]]", r"\1", text)
RECURSIVE sub_piped_links(_)
sub_piped_links(s) ==
    IF s = <<>> THEN <<>>
    ELSE LET j == Find(s, 3, {"]", "|"})
             e == Find(s, j + 1, {"]"})
         IN  IF /\ Len(s) >= 2
                /\ s[1] = "[" /\ s[2] = "["
                /\ j >= 4 /\ s[j] = "|"
                /\ e >= j + 2 /\ e < Len(s) /\ s[e + 1] = "]"
             THEN SubSeq(s, j + 1, e - 1) \o sub_piped_links(From(s, e + 2))
             ELSE <<Head(s)>> \o sub_piped_links(Tail(s))

\* re.sub(r"\[\[([^]]+)]]", r"\1", text)
RECURSIVE sub_links(_)
sub_links(s) ==
    IF s = <<>> THEN <<>>
    ELSE LET e == Find(s, 3, {"]"})
         IN  IF /\ Len(s) >= 2
                /\ s[1] = "[" /\ s[2] = "["
                /\ e >= 4 /\ e < Len(s) /\ s[e + 1] = "]"
             THEN SubSeq(s, 3, e - 1) \o sub_links(From(s, e + 2))
             ELSE <<Head(s)>> \o sub_links(Tail(s))

\* re.sub(r"''+", "", text)
RECURSIVE sub_quotes(_)
sub_quotes(s) ==
    IF s = <<>> THEN <<>>
    ELSE IF Len(s) >= 2 /\ s[1] = "'" /\ s[2] = "'"
         THEN sub_quotes(lstrip_chars(s, {"'"}))
         ELSE <<Head(s)>> \o sub_quotes(Tail(s))

\* re.sub(r"\s+", " ", text)
RECURSIVE sub_spaces(_)
sub_spaces(s) ==
    IF s = <<>> THEN <<>>
    ELSE IF IsSpace(Head(s))
         THEN <<" ">> \o sub_spaces(lstrip(s))
         ELSE <<Head(s)>> \o sub_spaces(Tail(s))

_clean_wikicode(text) ==
    strip(sub_spaces(sub_quotes(sub_links(sub_piped_links(sub_templates(text))))))

\* re.split(pattern, s)[0] for a pattern that is one character of cs
first_piece(s, cs) ==
    LET j == Find(s, 1, cs) IN IF j = 0 THEN s ELSE SubSeq(s, 1, j - 1)

\* re.split(r"[.!?]\s+", txt)
RECURSIVE split_acc(_, _)
split_acc(s, cur) ==
    IF s = <<>> THEN <<cur>>
    ELSE IF Head(s) \in {".", "!", "?"} /\ Len(s) >= 2 /\ IsSpace(s[2])
         THEN <<cur>> \o split_acc(lstrip(Tail(s)), <<>>)
         ELSE split_acc(Tail(s), Append(cur, Head(s)))

split_sentences(txt) == split_acc(txt, <<>>)

-----------------------------------------------------------------------------
(* JSON payloads and the Python operations the code applies to them. *)

JNull == [t |-> "null"]
JStr(s) == [t |-> "str", v |-> s]
JNum(n) == [t |-> "num", v |-> n]
JList(q) == [t |-> "list", v |-> q]
\* an object is the sequence of its <<key, value>> items, in insertion order
JObj(items) == [t |-> "obj", v |-> items]
\* a body that is not JSON
Invalid == [t |-> "invalid"]
\* an exception raised while evaluating an expression
Raise == [t |-> "raise"]

\* Response.json()
json(body) == IF body.t = "invalid" THEN Raise ELSE body

\* bool(j)
truthy(j) ==
    CASE j.t = "null" -> FALSE
      [] j.t = "num" -> j.v # 0
      [] j.t \in {"str", "list", "obj"} -> j.v # <<>>

\* j.get(key, default): AttributeError unless j is a dict
dict_get(j, key, default) ==
    IF j.t # "obj" THEN Raise
    ELSE IF \E n \in DOMAIN j.v : j.v[n][1] = key
         THEN j.v[CHOOSE n \in DOMAIN j.v : j.v[n][1] = key][2]
         ELSE default

\* j[0]: IndexError on an empty list or str, KeyError on a dict (JSON keys are
\* strings), TypeError on None or a number
index0(j) ==
    IF j.t = "list" /\ j.v # <<>> THEN j.v[1]
    ELSE IF j.t = "str" /\ j.v # <<>> THEN JStr(<<j.v[1]>>)
    ELSE Raise

\* whether  for x in j  can start: TypeError on None or a number
iterable(j) == j.t \in {"list", "str", "obj"}

\* the items  for x in j  visits: the elements of a list, the characters of a
\* str, the keys of a dict
iter(j) ==
    CASE j.t = "list" -> j.v
      [] j.t = "str" -> [n \in DOMAIN j.v |-> JStr(<<j.v[n]>>)]
      [] j.t = "obj" -> [n \in DOMAIN j.v |-> JStr(<<j.v[n][1]>>)]

\* j.values(), for a dict j (anything else has no such attribute)
dict_values(j) == [n \in DOMAIN j.v |-> j.v[n][2]]

\* what a try block of a lookup ends with: a return, or nothing (it fell through
\* or its exception was swallowed by  except Exception: pass)
Return(s) == [k |-> "return", v |-> s]
NoReturn == [k |-> "none"]

-----------------------------------------------------------------------------
(* fetch_definition: the three remote sources and the local lexicon. *)

\* source A: the loop over meanings
RECURSIVE meanings_loop(_)
meanings_loop(ms) ==
    IF ms = <<>> THEN NoReturn
    ELSE LET defs == dict_get(Head(ms), "definitions", JList(<<>>))
             d == dict_get(index0(defs), "definition", JNull)
         IN  IF defs.t = "raise" THEN NoReturn
             ELSE IF ~truthy(defs) THEN meanings_loop(Tail(ms))
             ELSE IF d.t = "raise" THEN NoReturn
             ELSE IF ~truthy(d) THEN meanings_loop(Tail(ms))
             ELSE IF d.t = "str" THEN Return(strip(d.v))
             ELSE NoReturn

\* source A: api.dictionaryapi.dev
dictionary_api(resp) ==
    IF resp.kind = "exc" THEN NoReturn
    ELSE IF resp.status_code # 200 THEN NoReturn
    ELSE LET meanings == dict_get(index0(json(resp.body)), "meanings", JList(<<>>))
         IN  IF meanings.t = "raise" \/ ~iterable(meanings) THEN NoReturn
             ELSE meanings_loop(iter(meanings))

etymologie == <<"é", "t", "y", "m", "o", "l", "o", "g", "i", "e">>

\* source B: the loop over the lines of the raw wiki markup
RECURSIVE wiki_lines_loop(_)
wiki_lines_loop(lines) ==
    IF lines = <<>> THEN NoReturn
    ELSE LET line == strip(Head(lines))
             clean == _clean_wikicode(lstrip_chars(line, {"#"}))
         IN  IF /\ startswith(line, <<"#">>)
                /\ ~startswith(line, <<"#", "#">>)
                /\ ~contains(lower(line), etymologie)
                /\ clean # <<>>
             THEN Return(strip(first_piece(clean, {".", ";"})))
             ELSE wiki_lines_loop(Tail(lines))

\* source B: fr.wiktionary.org, action=raw; the body is the text's lines
wiktionary_raw(resp) ==
    IF resp.kind = "exc" THEN NoReturn
    ELSE IF resp.status_code # 200 THEN NoReturn
    ELSE wiki_lines_loop(resp.body)

\* source C: tatoeba.org search
tatoeba_search(resp) ==
    IF resp.kind = "exc" THEN NoReturn
    ELSE IF resp.status_code # 200 THEN NoReturn
    ELSE LET results == dict_get(json(resp.body), "results", JList(<<>>))
             text == dict_get(index0(results), "text", JStr(<<>>))
         IN  IF results.t = "raise" THEN NoReturn
             ELSE IF ~truthy(results) THEN NoReturn
             ELSE IF text.t = "str" THEN Return(strip(text.v))
             ELSE NoReturn

\* the names bound at module level when fetch_definition runs
module_globals ==
    {"requests", "random", "time", "re", "Counter", "urljoin", "feedparser", "pd",
     "BeautifulSoup", "flelex_path", "df", "rare_mask", "advanced_lemmas",
     "_clean_wikicode", "fetch_definition", "RSSScraper"}

\* source D: lexicon_defs.get(word.lower(), ""); the evaluation of a global name
\* that is bound nowhere raises NameError, outside every try block
lexicon_lookup(w) ==
    IF "lexicon_defs" \in module_globals
    THEN Return(<<>>)
    ELSE [k |-> "raise", v |-> "NameError"]

-----------------------------------------------------------------------------
(* find_example_sentence and the translation call of run. *)

\* a variant of local_example that tests  word in s, without lower()
RECURSIVE local_example_case_sensitive(_, _)
local_example_case_sensitive(sentences, w) ==
    IF sentences = <<>> THEN NoReturn
    ELSE IF contains(Head(sentences), w) THEN Return(strip(Head(sentences)))
    ELSE local_example_case_sensitive(Tail(sentences), w)

\* the loop over self.article_sentences
RECURSIVE local_example(_, _)
local_example(sentences, w) ==
    IF sentences = <<>> THEN NoReturn
    ELSE IF contains(lower(Head(sentences)), w) THEN Return(strip(Head(sentences)))
    ELSE local_example(Tail(sentences), w)

\* the loop over pages.values()
RECURSIVE pages_loop(_)
pages_loop(ps) ==
    IF ps = <<>> THEN NoReturn
    ELSE LET extract == dict_get(Head(ps), "extract", JStr(<<>>))
             ext == first_piece(extract.v, {"."})
         IN  IF extract.t # "str" THEN NoReturn
             ELSE IF ext # <<>> THEN Return(ext \o <<".">>)
             ELSE pages_loop(Tail(ps))

\* the wiki extract API
wiktionary_extract(resp) ==
    IF resp.kind = "exc" THEN NoReturn
    ELSE IF resp.status_code # 200 THEN NoReturn
    ELSE LET query == dict_get(json(resp.body), "query", JObj(<<>>))
             pages == dict_get(query, "pages", JObj(<<>>))
         IN  IF query.t = "raise" \/ pages.t # "obj" THEN NoReturn
             ELSE pages_loop(dict_values(pages))

default_example(w) ==
    <<"E", "x", "e", "m", "p", "l", "e", " ", "p", "a", "r", " ", "d", "é", "f", "a", "u", "t", " ", ":", " ", "'">>
    \o w \o
    <<"'", " ", "e", "s", "t", " ", "u", "n", " ", "m", "o", "t", " ", "a", "v", "a", "n", "c", "é", " ", "à", " ", "c", "o", "n", "n", "a", "î", "t", "r", "e", ".">>

placeholder == <<"(", "d", "é", "f", "i", "n", "i", "t", "i", "o", "n", " ", "i", "n", "d", "i", "s", "p", "o", "n", "i", "b", "l", "e", ")">>

\* english after the translation try block: tr.get("translatedText", ""), or the
\* initial "" when the post, json() or get raised
translate(resp) ==
    IF resp.kind = "exc" THEN JStr(<<>>)
    ELSE LET t == dict_get(json(resp.body), "translatedText", JStr(<<>>))
         IN  IF t.t = "raise" THEN JStr(<<>>) ELSE t

\* str(n) for n >= 0
RECURSIVE digits(_)
digits(n) ==
    LET d == <<"0", "1", "2", "3", "4", "5", "6", "7", "8", "9">>[(n % 10) + 1]
    IN  IF n < 10 THEN <<d>> ELSE digits(n \div 10) \o <<d>>

\* what an f-string makes of a str, None or a non-negative int
format(j) ==
    CASE j.t = "str" -> j.v
      [] j.t = "null" -> <<"N", "o", "n", "e">>
      [] j.t = "num" -> digits(j.v)

-----------------------------------------------------------------------------
(* The module-level lexicon filter and clean_and_count_words. *)

\* rare_mask, for one row of the FLELex table
rare_mask(row) ==
    row.freq_C2 > 0 /\ row.freq_total < 100 /\ Len(row.word) > 6

\* advanced_lemmas = set(df.loc[rare_mask, "word"].str.lower())
AdvancedLemmas(df) == {lower(row.word) : row \in {x \in df : rare_mask(x)}}

static_excluded ==
    {<<"f", "r", "a", "n", "ç", "a", "i", "s">>,
     <<"f", "r", "a", "n", "ç", "a", "i", "s", "e">>,
     <<"f", "r", "a", "n", "c", "a", "i", "s">>,
     <<"a", "m", "é", "r", "i", "c", "a", "i", "n">>,
     <<"a", "m", "é", "r", "i", "c", "a", "i", "n", "e">>,
     <<"a", "m", "e", "r", "i", "c", "a", "i", "n">>,
     <<"f", "r", "a", "n", "c", "e">>,
     <<"é", "t", "a", "t", "s", "-", "u", "n", "i", "s">>,
     <<"e", "t", "a", "t", "s", "-", "u", "n", "i", "s">>,
     <<"e", "u", "r", "o", "p", "e">>,
     <<"p", "a", "r", "i", "s">>,
     <<"w", "a", "s", "h", "i", "n", "g", "t", "o", "n">>,
     <<"m", "a", "c", "r", "o", "n">>,
     <<"t", "r", "u", "m", "p">>,
     <<"b", "i", "d", "e", "n">>,
     <<"n", "e", "t", "a", "n", "y", "a", "h", "u">>,
     <<"i", "s", "r", "a", "ë", "l">>,
     <<"i", "s", "r", "a", "e", "l">>,
     <<"p", "a", "l", "e", "s", "t", "i", "n", "e">>,
     <<"g", "a", "z", "a">>,
     <<"u", "k", "r", "a", "i", "n", "e">>,
     <<"r", "u", "s", "s", "i", "e">>,
     <<"r", "u", "s", "s", "i", "a">>,
     <<"p", "o", "u", "t", "i", "n", "e">>,
     <<"z", "e", "l", "e", "n", "s", "k", "y">>,
     <<"o", "n", "u">>,
     <<"p", "a", "y", "s">>,
     <<"v", "i", "l", "l", "e">>,
     <<"t", "e", "r", "r", "i", "t", "o", "i", "r", "e">>,
     <<"g", "o", "u", "v", "e", "r", "n", "e", "m", "e", "n", "t">>,
     <<"p", "r", "é", "s", "i", "d", "e", "n", "t">>,
     <<"p", "r", "é", "s", "i", "d", "e", "n", "t", "e">>,
     <<"a", "v", "o", "i", "r">>,
     <<"ê", "t", "r", "e">>,
     <<"f", "a", "i", "r", "e">>,
     <<"m", "e", "t", "t", "r", "e">>,
     <<"d", "i", "r", "e">>,
     <<"a", "l", "l", "e", "r">>,
     <<"v", "o", "i", "r">>,
     <<"d", "o", "n", "n", "e", "r">>,
     <<"b", "o", "n">>,
     <<"m", "a", "u", "v", "a", "i", "s">>,
     <<"b", "e", "a", "u">>,
     <<"g", "r", "a", "n", "d">>,
     <<"p", "e", "t", "i", "t">>,
     <<"i", "m", "p", "o", "r", "t", "a", "n", "t">>,
     <<"n", "o", "u", "v", "e", "a", "u">>,
     <<"l", "u", "n", "d", "i">>,
     <<"m", "a", "r", "d", "i">>,
     <<"m", "e", "r", "c", "r", "e", "d", "i">>,
     <<"j", "e", "u", "d", "i">>,
     <<"v", "e", "n", "d", "r", "e", "d", "i">>,
     <<"s", "a", "m", "e", "d", "i">>,
     <<"d", "i", "m", "a", "n", "c", "h", "e">>,
     <<"j", "a", "n", "v", "i", "e", "r">>,
     <<"f", "é", "v", "r", "i", "e", "r">>,
     <<"m", "a", "r", "s">>,
     <<"a", "v", "r", "i", "l">>,
     <<"m", "a", "i">>,
     <<"j", "u", "i", "n">>,
     <<"j", "u", "i", "l", "l", "e", "t">>,
     <<"a", "o", "û", "t">>,
     <<"s", "e", "p", "t", "e", "m", "b", "r", "e">>,
     <<"o", "c", "t", "o", "b", "r", "e">>,
     <<"n", "o", "v", "e", "m", "b", "r", "e">>,
     <<"d", "é", "c", "e", "m", "b", "r", "e">>,
     <<"d", "o", "n", "c">>,
     <<"m", "a", "i", "s">>,
     <<"o", "u">>,
     <<"e", "t">>,
     <<"c", "a", "r">>,
     <<"c", "e", "p", "e", "n", "d", "a", "n", "t">>,
     <<"p", "o", "u", "r", "t", "a", "n", "t">>,
     <<"t", "o", "u", "t", "e", "f", "o", "i", "s">>,
     <<"a", "i", "n", "s", "i">>,
     <<"a", "l", "o", "r", "s">>,
     <<"p", "u", "i", "s">>,
     <<"e", "n", "s", "u", "i", "t", "e">>,
     <<"é", "g", "a", "l", "e", "m", "e", "n", "t">>}

\* common_words: the stripped, lowercased non-blank lines of the file, or the
\* empty set when the file cannot be read
common_words ==
    IF ~common_file.readable THEN {}
    ELSE {lower(strip(common_file.lines[n])) :
            n \in {m \in DOMAIN common_file.lines : strip(common_file.lines[m]) # <<>>}}

excluded_words == static_excluded \cup common_words

\* a variant of keeps with the length test  len(tok) >= 6
keeps_from_six(tok) ==
    /\ tok.is_alpha
    /\ tok.len >= 6
    /\ lower(tok.lemma_) \in advanced_lemmas
    /\ tok.pos_ \in {"NOUN", "VERB", "ADJ", "ADV"}
    /\ lower(tok.lemma_) \notin excluded_words

\* the condition of the list comprehension, for one token
keeps(tok) ==
    /\ tok.is_alpha
    /\ tok.len > 6
    /\ lower(tok.lemma_) \in advanced_lemmas
    /\ tok.pos_ \in {"NOUN", "VERB", "ADJ", "ADV"}
    /\ lower(tok.lemma_) \notin excluded_words

RECURSIVE comprehension(_)
comprehension(doc) ==
    IF doc = <<>> THEN <<>>
    ELSE IF keeps(Head(doc))
         THEN << <<lower(Head(doc).lemma_), Head(doc).pos_>> >> \o comprehension(Tail(doc))
         ELSE comprehension(Tail(doc))

\* clean_and_count_words; an article carries the tokens nlp(text) yields for it
clean_and_count_words(article) ==
    IF ~spacy_ok THEN <<>> ELSE comprehension(article.doc)

-----------------------------------------------------------------------------
(* fetch_articles_from_rss. *)

\* the loop over parsed.entries; done when the function returned from inside it
RECURSIVE entries_loop(_, _, _)
entries_loop(entries, arts, max) ==
    IF entries = <<>> THEN [done |-> FALSE, articles |-> arts]
    ELSE LET entry == Head(entries)
             a == IF "summary" \in DOMAIN entry THEN Append(arts, entry.summary)
                  ELSE IF "description" \in DOMAIN entry
                       THEN Append(arts, entry.description)
                       ELSE arts
         IN  IF Len(a) >= max THEN [done |-> TRUE, articles |-> a]
             ELSE entries_loop(Tail(entries), a, max)

\* the loop over self.rss_feeds; a feed whose parse raises is skipped
RECURSIVE feeds_loop(_, _, _)
feeds_loop(fs, arts, max) ==
    IF fs = <<>> THEN arts
    ELSE IF Head(fs).raises THEN feeds_loop(Tail(fs), arts, max)
    ELSE LET res == entries_loop(Head(fs).entries, arts, max)
         IN  IF res.done THEN res.articles ELSE feeds_loop(Tail(fs), res.articles, max)

fetch_articles_from_rss(max) == feeds_loop(feeds, <<>>, max)

-----------------------------------------------------------------------------
(* The rarity sample of run. *)

\* Counter(all_words)[x]
count(words, x) == Cardinality({n \in DOMAIN words : words[n] = x})

\* a variant of uniques with the test  c >= 1: every pair the Counter holds
RECURSIVE uniques_any_count(_)
uniques_any_count(words) ==
    IF words = <<>> THEN <<>>
    ELSE LET rest == uniques_any_count(SubSeq(words, 1, Len(words) - 1))
         IN  IF \E n \in DOMAIN rest : rest[n] = words[Len(words)] THEN rest
             ELSE Append(rest, words[Len(words)])

\* uniques: the pairs counted once, in the order Counter first met them
uniques(words) == SelectSeq(words, LAMBDA x : count(words, x) = 1)

\* a variant of sample_size without the cap
sample_size_uncapped(n) == n

\* the size of the sample: min(30, len(uniques))
sample_size(n) == IF n < 30 THEN n ELSE 30

\* the subsets of 1..n with m elements
RECURSIVE KSubsets(_, _)
KSubsets(n, m) ==
    IF m = 0 THEN {{}}
    ELSE IF n < m THEN {}
    ELSE KSubsets(n - 1, m) \cup {S \cup {n} : S \in KSubsets(n - 1, m - 1)}

\* the elements of q at the indices of S, in the order of q
RECURSIVE pick(_, _, _)
pick(q, S, n) ==
    IF n > Len(q) THEN <<>>
    ELSE IF n \in S THEN <<q[n]>> \o pick(q, S, n + 1)
    ELSE pick(q, S, n + 1)

reversed(q) == [n \in 1..Len(q) |-> q[Len(q) + 1 - n]]

\* a draw of random.sample: the indices chosen and whether the list comes
\* out in the population's order or against it
Draws(n, m) == KSubsets(n, m) \X BOOLEAN

\* random.sample(population, m), for one draw
random_sample(population, draw) ==
    IF draw[2] THEN reversed(pick(population, draw[1], 1))
    ELSE pick(population, draw[1], 1)

\* insertion of x after every element whose key is not greater: a stable sort
RECURSIVE insert_by_lemma(_, _)
insert_by_lemma(q, x) ==
    IF q = <<>> THEN <<x>>
    ELSE IF str_less(x[1], Head(q)[1]) THEN <<x>> \o q
    ELSE <<Head(q)>> \o insert_by_lemma(Tail(q), x)

\* sorted(q, key=lambda x: x[0])
RECURSIVE sorted_by_lemma(_)
sorted_by_lemma(q) ==
    IF q = <<>> THEN <<>>
    ELSE insert_by_lemma(sorted_by_lemma(SubSeq(q, 1, Len(q) - 1)), q[Len(q)])

\* one line of the output file
tsv_line(card) ==
    card[1] \o <<"\t">> \o card[2] \o <<"\t">> \o card[3] \o <<"\t">>
        \o format(card[4]) \o <<"\n">>

tsv_header == <<"W", "o", "r", "d", "\t", "D", "e", "f", "i", "n", "i", "t", "i", "o", "n", "\t", "E", "x", "a", "m", "p", "l", "e", "\t", "E", "n", "g", "l", "i", "s", "h">> \o <<"\n">>

-----------------------------------------------------------------------------
(* The responses the remote services may give. *)

\* requests.get or requests.post raised (timeout, transport error)
Exc == [kind |-> "exc"]
Http(status, body) == [kind |-> "http", status_code |-> status, body |-> body]

Meaning(defs) == JObj(<< <<"definitions", JList(defs)>> >>)
Definition(j) == JObj(<< <<"definition", j>> >>)
Entry(meanings) == JList(<<JObj(<< <<"meanings", JList(meanings)>> >>)>>)

\* api.dictionaryapi.dev: answers that yield a definition (possibly blank) ...
DictAnswers ==
    {Http(200, Entry(<<Meaning(<<>>), Meaning(<<Definition(JStr(<<" ", "a", "b", "o", "l", "i", "r", " ">>)) >>)>>)),
     Http(200, Entry(<<Meaning(<<Definition(JNull)>>),
                       Meaning(<<Definition(JStr(<<"a", "n", "n", "u", "l", "e", "r">>)), Definition(JStr(<<"x">>))>>)>>)),
     Http(200, Entry(<<Meaning(<<Definition(JStr(<<" ", " ">>))>>)>>))}

\* ... and failures: transport, status, malformed or unexpectedly shaped payload
DictFailures ==
    {Exc,
     Http(404, Invalid),
     Http(200, Invalid),
     Http(200, JList(<<>>)),
     Http(200, JObj(<<>>)),
     Http(200, JList(<<JObj(<<>>)>>)),
     Http(200, JList(<<JObj(<< <<"meanings", JNull>> >>)>>)),
     Http(200, Entry(<<JStr(<<"m">>)>>)),
     Http(200, Entry(<<Meaning(<<Definition(JNum(5))>>)>>))}

\* fr.wiktionary.org raw markup, as the lines of the text
WikiAnswers ==
    {Http(200, <<<<"=", "=", " ", "{", "{", "S", "|", "v", "e", "r", "b", "e", "}", "}", " ", "=", "=">>,
                 <<"#", "#", " ", "s", "o", "u", "s", "-", "p", "o", "i", "n", "t">>,
                 <<" ", "#", " ", "{", "{", "t", "e", "r", "m", "|", "D", "r", "o", "i", "t", "}", "}", " ", "[", "[", "a", "n", "n", "u", "l", "e", "r", "|", "A", "n", "n", "u", "l", "e", "r", "]", "]", " ", " ", "u", "n", "e", " ", "'", "'", "l", "o", "i", "'", "'", ";", " ", "v", "o", "i", "r", " ", "[", "[", "a", "b", "o", "l", "i", "r", "]", "]", ".">>>>),
     Http(200, <<<<"#", " ", "É", "t", "y", "m", "o", "l", "o", "g", "i", "e", " ", ":", " ", "d", "u", " ", "l", "a", "t", "i", "n">>, <<"#", ".", " ", "V", "i", "d", "e">>>>)}

WikiFailures ==
    {Exc,
     Http(500, <<>>),
     Http(200, <<>>),
     Http(200, <<<<"#", " ", " ">>, <<"#", "{", "{", "t", "e", "r", "m", "|", "r", "a", "r", "e", "}", "}">>, <<"#", " ", "é", "t", "y", "m", "o", "l", "o", "g", "i", "e", " ", "o", "b", "s", "c", "u", "r", "e">>, <<"t", "e", "x", "t", "e">>>>)}

\* tatoeba.org search
TatoebaAnswers ==
    {Http(200, JObj(<< <<"results", JList(<<JObj(<< <<"text", JStr(<<" ", "I", "l", " ", "a", "b", "r", "o", "g", "e", ".", " ">>)>> >>)>>)>> >>)),
     Http(200, JObj(<< <<"results", JList(<<JObj(<< <<"text", JStr(<<" ", "\t">>)>> >>)>>)>> >>)),
     Http(200, JObj(<< <<"results", JList(<<JObj(<<>>)>>)>> >>))}

TatoebaFailures ==
    {Exc,
     Http(503, Invalid),
     Http(200, Invalid),
     Http(200, JList(<<>>)),
     Http(200, JObj(<<>>)),
     Http(200, JObj(<< <<"results", JList(<<>>)>> >>)),
     Http(200, JObj(<< <<"results", JList(<<JObj(<< <<"text", JNull>> >>)>>)>> >>)),
     Http(200, JObj(<< <<"results", JList(<<JStr(<<"r">>)>>)>> >>))}

Pages(items) == JObj(<< <<"query", JObj(<< <<"pages", JObj(items)>> >>)>> >>)

\* the wiki extract API
ExtractAnswers ==
    {Http(200, Pages(<< <<"1", JObj(<< <<"extract", JStr(<<>>)>> >>)>>,
                        <<"2", JObj(<< <<"extract", JStr(<<"M", "o", "t", " ", "r", "a", "r", "e", ".", " ", "S", "u", "i", "t", "e">>)>> >>)>> >>))}

ExtractFailures ==
    {Exc,
     Http(404, Invalid),
     Http(200, Invalid),
     Http(200, JObj(<<>>)),
     Http(200, JObj(<< <<"query", JObj(<< <<"pages", JList(<<>>)>> >>)>> >>)),
     Http(200, Pages(<< <<"-1", JObj(<< <<"missing", JStr(<<>>)>> >>)>> >>)),
     Http(200, Pages(<< <<"1", JObj(<< <<"extract", JNull>> >>)>> >>))}

\* libretranslate.com: a translation ...
TranslateAnswers ==
    {Http(200, JObj(<< <<"translatedText", JStr(<<"t", "o", " ", "r", "e", "p", "e", "a", "l">>)>> >>))}

\* ... and failures: transport, not JSON, not an object, field missing or null
TranslateFailures ==
    {Exc,
     Http(200, Invalid),
     Http(200, JList(<<>>)),
     Http(400, JObj(<< <<"error", JStr(<<"e">>)>> >>)),
     Http(200, JObj(<< <<"translatedText", JNull>> >>))}

\* the network when anything may happen
AnyNet ==
    [dict |-> DictAnswers \cup DictFailures,
     wiki |-> WikiAnswers \cup WikiFailures,
     tatoeba |-> TatoebaAnswers \cup TatoebaFailures,
     extract |-> ExtractAnswers \cup ExtractFailures,
     translate |-> TranslateAnswers \cup TranslateFailures]

\* every remote service stubbed to fail
DownNet ==
    [dict |-> DictFailures, wiki |-> WikiFailures, tatoeba |-> TatoebaFailures,
     extract |-> ExtractFailures, translate |-> TranslateFailures]

\* stubs where the sources of definitions answer and the rest fails
AnswerNet ==
    [dict |-> DictAnswers, wiki |-> WikiAnswers, tatoeba |-> TatoebaAnswers,
     extract |-> ExtractAnswers, translate |-> TranslateAnswers]

\* a fixed stub: the dictionary and the translation answer, one answer each
FixedNet ==
    [dict |-> {Http(200, Entry(<<Meaning(<<Definition(JStr(<<"d">>))>>)>>))},
     wiki |-> {Exc}, tatoeba |-> {Exc}, extract |-> {Exc},
     translate |-> {Http(200, JObj(<< <<"translatedText", JStr(<<"e">>)>> >>))}]

-----------------------------------------------------------------------------
(* The inputs: lexicon, word list file, tagged articles, feeds. *)

\* rows of data/FLELex_TreeTagger.csv
FLELex ==
    {[word |-> <<"A", "b", "r", "o", "g", "e", "r">>, freq_total |-> 5, freq_C2 |-> 2],
     [word |-> <<"u", "b", "u", "e", "s", "q", "u", "e">>, freq_total |-> 3, freq_C2 |-> 1],
     [word |-> <<"s", "e", "p", "t", "e", "m", "b", "r", "e">>, freq_total |-> 20, freq_C2 |-> 1],
     [word |-> <<"v", "é", "t", "u", "s", "t", "e">>, freq_total |-> 8, freq_C2 |-> 1],
     [word |-> <<"b", "o", "n", "j", "o", "u", "r">>, freq_total |-> 90, freq_C2 |-> 0],
     [word |-> <<"f", "u", "g", "a", "c", "e">>, freq_total |-> 4, freq_C2 |-> 2],
     [word |-> <<"g", "o", "u", "v", "e", "r", "n", "e", "m", "e", "n", "t", "a", "l">>, freq_total |-> 150, freq_C2 |-> 1]}

\* data/frequent_french_words.txt: unreadable, or its lines
CommonFiles ==
    {[readable |-> FALSE, lines |-> <<>>],
     [readable |-> TRUE, lines |-> <<<<" ", "V", "é", "t", "u", "s", "t", "e", " ">>, <<" ">>, <<"l", "e">>>>]}

Token(alpha, n, lemma, pos) ==
    [is_alpha |-> alpha, len |-> n, lemma_ |-> lemma, pos_ |-> pos]

\* a token that passes every filter when the word list file is unreadable
Good(lemma, pos) == Token(TRUE, 7, lemma, pos)

\* tokens: passing ones, ones that fail exactly one filter, one that fails all
TokenPool ==
    {Good(<<"A", "b", "r", "o", "g", "e", "r">>, p) : p \in {"NOUN", "VERB", "ADJ", "ADV"}}
    \cup {Token(FALSE, 7, <<"A", "b", "r", "o", "g", "e", "r">>, "NOUN"),
          Token(TRUE, 6, <<"A", "b", "r", "o", "g", "e", "r">>, "NOUN"),
          Good(<<"b", "o", "n", "j", "o", "u", "r">>, "NOUN"),
          Good(<<"A", "b", "r", "o", "g", "e", "r">>, "PROPN"),
          Good(<<"s", "e", "p", "t", "e", "m", "b", "r", "e">>, "NOUN"),
          Good(<<"V", "é", "t", "u", "s", "t", "e">>, "NOUN"),
          Token(FALSE, 6, <<"l", "e">>, "DET")}

\* the longest document of the extraction specification
MaxTokens == 3

RECURSIVE SeqsUpTo(_, _)
SeqsUpTo(S, n) ==
    IF n = 0 THEN {<<>>}
    ELSE LET shorter == SeqsUpTo(S, n - 1)
         IN  shorter \cup {Append(q, x) : q \in {p \in shorter : Len(p) = n - 1}, x \in S}

\* an article: its text and the tokens the tagger yields for it
DocAbroger == [text |-> <<"O", "n", " ", "v", "a", " ", "A", "b", "r", "o", "g", "e", "r", ".", " ", "O", "u", "i">>, doc |-> <<Good(<<"A", "b", "r", "o", "g", "e", "r">>, "VERB")>>]
DocUbuesque ==
    [text |-> <<"R", "i", "e", "n", " ", "i", "c", "i">>, doc |-> <<Good(<<"u", "b", "u", "e", "s", "q", "u", "e">>, "ADJ"), Token(FALSE, 6, <<"l", "e">>, "DET")>>]
DocTwice ==
    [text |-> <<"a", "b", "r", "o", "g", "e", "r", "!", " ", "a", "b", "r", "o", "g", "e", "r">>,
     doc |-> <<Good(<<"A", "b", "r", "o", "g", "e", "r">>, "VERB"), Good(<<"a", "b", "r", "o", "g", "e", "r">>, "VERB")>>]
DocNone == [text |-> <<"B", "o", "n", "j", "o", "u", "r">>, doc |-> <<Good(<<"b", "o", "n", "j", "o", "u", "r">>, "NOUN")>>]

Feed(entries) == [raises |-> FALSE, entries |-> entries]
FeedDown == [raises |-> TRUE, entries |-> <<>>]

\* what the feeds yield: nothing; one article with one candidate; one article
\* whose candidate occurs twice; one without candidates; two candidates over two
\* entries; a candidate made non-unique by a later feed
FeedScenarios ==
    {<<FeedDown, Feed(<<[title |-> <<"t">>]>>)>>,
     <<Feed(<<[summary |-> DocAbroger]>>)>>,
     <<Feed(<<[summary |-> DocTwice]>>)>>,
     <<Feed(<<[description |-> DocNone]>>)>>,
     <<FeedDown,
       Feed(<<[summary |-> DocAbroger, description |-> DocNone], [title |-> <<"t">>],
              [description |-> DocUbuesque]>>)>>,
     <<Feed(<<[summary |-> DocAbroger]>>), Feed(<<[summary |-> DocTwice]>>)>>}

\* the sampler specification's batches hold up to MaxUniques pairs that occur
\* once and MaxDups pairs that occur twice
MaxUniques == 31
MaxDups == 1

PoolLetters == <<"a", "b", "c", "d", "e", "f", "g", "h">>
PoolLemma(n) ==
    <<"t", "e", "r", "m", "e">> \o <<PoolLetters[((n - 1) \div 8) + 1], PoolLetters[((n - 1) % 8) + 1]>>
\* consecutive pairs share a lemma and differ in the part of speech
PoolPair(n) == <<PoolLemma((n + 1) \div 2), IF n % 2 = 1 THEN "NOUN" ELSE "VERB">>

PoolLexicon ==
    {[word |-> PoolLemma(n), freq_total |-> 1, freq_C2 |-> 1] :
        n \in 1..((MaxUniques + MaxDups + 1) \div 2)}

\* u pairs once, against the pool's order, between d pairs that occur twice
Batch(u, d) ==
    [n \in 1..d |-> PoolPair(u + n)]
        \o [n \in 1..u |-> PoolPair(u + 1 - n)]
        \o [n \in 1..d |-> PoolPair(u + n)]

\* the longest list of sentences of the example specification
MaxSentences == 2

SentencePool == {<<" ", "O", "n", " ", "v", "a", " ", "A", "b", "r", "o", "g", "e", "r", " ">>, <<"a", "b", "r", "o", "g", "e", "r", " ", "v", "i", "t", "e">>, <<"R", "i", "e", "n">>, <<>>}

-----------------------------------------------------------------------------
(* The steps of run. *)

Absent == [exists |-> FALSE, lines |-> <<>>]

\* no response received yet
NoResponse == [kind |-> "none"]

\* the head of  for word, pos in sample  at index n
loop_pc(s, n) == IF n > Len(s) THEN "write" ELSE "srcA"
loop_word(s, n) == IF n > Len(s) THEN word ELSE s[n][1]

\* run, up to the article loop
Start ==
    /\ pc = "start"
    /\ LET fetched == fetch_articles_from_rss(max_articles)
       IN  /\ articles' = fetched
           /\ pc' = IF fetched = <<>> THEN "done" ELSE "article"
           /\ i' = IF fetched = <<>> THEN i ELSE 1
    /\ UNCHANGED <<r, net, feeds, max_articles, spacy_ok, common_file, advanced_lemmas,
                   article_sentences, all_words, sample, k, word, definition,
                   sentence, result, flashcards, outfile, calls, raised>>

\* one iteration of the article loop
ProcessArticle ==
    /\ pc = "article"
    /\ article_sentences' = article_sentences \o split_sentences(articles[i].text)
    /\ all_words' = all_words \o clean_and_count_words(articles[i])
    /\ pc' = IF i = Len(articles) THEN "count" ELSE "article"
    /\ i' = IF i = Len(articles) THEN i ELSE i + 1
    /\ UNCHANGED <<r, net, feeds, max_articles, spacy_ok, common_file, advanced_lemmas,
                   articles, sample, k, word, definition, sentence, result,
                   flashcards, outfile, calls, raised>>

\* "Nothing to process."
NothingToProcess ==
    /\ pc = "count"
    /\ all_words = <<>>
    /\ pc' = "done"
    /\ UNCHANGED <<r, net, feeds, max_articles, spacy_ok, common_file, advanced_lemmas,
                   articles, i, article_sentences, all_words, sample, k, word,
                   definition, sentence, result, flashcards, outfile, calls, raised>>

\* the sample, sorted, and the head of the flashcard loop
Sample ==
    /\ pc = "count"
    /\ all_words # <<>>
    /\ LET population == uniques(all_words)
       IN  \E draw \in Draws(Len(population), sample_size(Len(population))) :
               LET s == sorted_by_lemma(random_sample(population, draw))
               IN  /\ sample' = s
                   /\ k' = 1
                   /\ pc' = loop_pc(s, 1)
                   /\ word' = loop_word(s, 1)
    /\ UNCHANGED <<r, net, feeds, max_articles, spacy_ok, common_file, advanced_lemmas,
                   articles, i, article_sentences, all_words, definition, sentence,
                   result, flashcards, outfile, calls, raised>>

\* fetch_definition returns v, and run binds  definition = v or placeholder
Returns(v) ==
    /\ result' = v
    /\ definition' = IF v # <<>> THEN v ELSE placeholder
    /\ pc' = "example"
    /\ raised' = raised

\* a variant of SourceEnds that goes on to the next source after a return
SourceEnds_no_stop(d, next) ==
    IF d.k = "raise" THEN
         /\ raised' = d.v
         /\ pc' = "raised"
         /\ UNCHANGED <<result, definition>>
    ELSE /\ pc' = next
         /\ result' = IF d.k = "return" THEN d.v ELSE result
         /\ UNCHANGED <<definition, raised>>

\* a source of fetch_definition ended with outcome d; next is where it falls to
SourceEnds(d, next) ==
    IF d.k = "return" THEN Returns(d.v)
    ELSE IF d.k = "raise" THEN
         /\ raised' = d.v
         /\ pc' = "raised"
         /\ UNCHANGED <<result, definition>>
    ELSE /\ pc' = next
         /\ UNCHANGED <<result, definition, raised>>

SourceA ==
    /\ pc = "srcA"
    /\ \E x \in net.dict : r' = x /\ SourceEnds(dictionary_api(x), "srcB")
    /\ calls' = Append(calls, "dict")
    /\ UNCHANGED <<net, feeds, max_articles, spacy_ok, common_file, advanced_lemmas,
                   articles, i, article_sentences, all_words, sample, k, word,
                   sentence, flashcards, outfile>>

SourceB ==
    /\ pc = "srcB"
    /\ \E x \in net.wiki : r' = x /\ SourceEnds(wiktionary_raw(x), "srcC")
    /\ calls' = Append(calls, "wiki")
    /\ UNCHANGED <<net, feeds, max_articles, spacy_ok, common_file, advanced_lemmas,
                   articles, i, article_sentences, all_words, sample, k, word,
                   sentence, flashcards, outfile>>

SourceC ==
    /\ pc = "srcC"
    /\ \E x \in net.tatoeba : r' = x /\ SourceEnds(tatoeba_search(x), "srcD")
    /\ calls' = Append(calls, "tatoeba")
    /\ UNCHANGED <<net, feeds, max_articles, spacy_ok, common_file, advanced_lemmas,
                   articles, i, article_sentences, all_words, sample, k, word,
                   sentence, flashcards, outfile>>

SourceD ==
    /\ pc = "srcD"
    /\ SourceEnds(lexicon_lookup(lower(word)), "srcD")
    /\ r' = r
    /\ calls' = Append(calls, "lexicon")
    /\ UNCHANGED <<net, feeds, max_articles, spacy_ok, common_file, advanced_lemmas,
                   articles, i, article_sentences, all_words, sample, k, word,
                   sentence, flashcards, outfile>>

\* find_example_sentence
FindExample ==
    /\ pc = "example"
    /\ LET local == local_example(article_sentences, word)
       IN  IF local.k = "return"
           THEN /\ sentence' = local.v
                /\ calls' = calls
                /\ r' = r
           ELSE \E x \in net.extract :
                    LET remote == wiktionary_extract(x)
                    IN  /\ sentence' = IF remote.k = "return" THEN remote.v
                                       ELSE default_example(word)
                        /\ calls' = Append(calls, "extract")
                        /\ r' = x
    /\ pc' = "translate"
    /\ UNCHANGED <<net, feeds, max_articles, spacy_ok, common_file, advanced_lemmas,
                   articles, i, article_sentences, all_words, sample, k, word,
                   definition, result, flashcards, outfile, raised>>

\* the translation, the record, and the head of the next iteration
Translate ==
    /\ pc = "translate"
    /\ IF definition # <<>> /\ definition # placeholder
       THEN \E x \in net.translate :
                /\ flashcards' = Append(flashcards, <<word, definition, sentence, translate(x)>>)
                /\ calls' = Append(calls, "translate")
                /\ r' = x
       ELSE /\ flashcards' = Append(flashcards, <<word, definition, sentence, JStr(<<>>)>>)
            /\ calls' = calls
            /\ r' = r
    /\ k' = k + 1
    /\ pc' = loop_pc(sample, k + 1)
    /\ word' = loop_word(sample, k + 1)
    /\ UNCHANGED <<net, feeds, max_articles, spacy_ok, common_file, advanced_lemmas,
                   articles, i, article_sentences, all_words, sample, definition,
                   sentence, result, outfile, raised>>

\* the output file
WriteFile ==
    /\ pc = "write"
    /\ outfile' = [exists |-> TRUE,
                   lines |-> <<tsv_header>>
                             \o [n \in 1..Len(flashcards) |-> tsv_line(flashcards[n])]]
    /\ pc' = "done"
    /\ UNCHANGED <<r, net, feeds, max_articles, spacy_ok, common_file, advanced_lemmas,
                   articles, i, article_sentences, all_words, sample, k, word,
                   definition, sentence, result, flashcards, calls, raised>>

-----------------------------------------------------------------------------
(* Specifications. *)

\* everything run has not touched yet
Fresh ==
    /\ articles = <<>> /\ i = 0 /\ article_sentences = <<>> /\ all_words = <<>>
    /\ sample = <<>> /\ k = 0 /\ word = <<>> /\ definition = <<>>
    /\ sentence = <<>> /\ result = <<>> /\ flashcards = <<>>
    /\ outfile = Absent /\ calls = <<>> /\ r = NoResponse /\ raised = "none"

\* RSSScraper().run(max_articles), from its first line
Init ==
    /\ pc = "start"
    /\ net \in {AnyNet, DownNet}
    /\ feeds \in FeedScenarios
    /\ max_articles \in {1, 10}
    /\ spacy_ok \in BOOLEAN
    /\ common_file \in CommonFiles
    /\ advanced_lemmas = AdvancedLemmas(FLELex)
    /\ Fresh

Next ==
    \/ Start \/ ProcessArticle \/ NothingToProcess \/ Sample
    \/ SourceA \/ SourceB \/ SourceC \/ SourceD
    \/ FindExample \/ Translate \/ WriteFile

Spec == Init /\ [][Next]_vars


\* one call fetch_definition(word), under several stubs of the network
OnlyWikiNet == [DownNet EXCEPT !.wiki = WikiAnswers \cup WikiFailures]
OnlyTatoebaNet == [DownNet EXCEPT !.tatoeba = TatoebaAnswers \cup TatoebaFailures]

InitDef ==
    /\ pc = "srcA"
    /\ net \in {AnyNet, DownNet, AnswerNet, OnlyWikiNet, OnlyTatoebaNet}
    /\ feeds = <<>> /\ max_articles = 10
    /\ spacy_ok = TRUE
    /\ common_file \in {c \in CommonFiles : ~c.readable}
    /\ advanced_lemmas = AdvancedLemmas(FLELex)
    /\ articles = <<>> /\ i = 0 /\ article_sentences = <<>> /\ all_words = <<>>
    /\ sample = <<>> /\ k = 0
    /\ word \in {<<"a", "b", "r", "o", "g", "e", "r">>, <<"u", "b", "u", "e", "s", "q", "u", "e">>, <<"A", "b", "r", "o", "g", "e", "r">>, <<>>}
    /\ definition = <<>> /\ sentence = <<>> /\ result = <<>> /\ flashcards = <<>>
    /\ outfile = Absent /\ calls = <<>> /\ r = NoResponse /\ raised = "none"

NextDef == SourceA \/ SourceB \/ SourceC \/ SourceD

SpecDef == InitDef /\ [][NextDef]_vars

\* one call find_example_sentence(word), after fetch_definition returned ""
InitExample ==
    /\ pc = "example"
    /\ net \in {AnyNet, DownNet}
    /\ feeds = <<>> /\ max_articles = 10
    /\ spacy_ok = TRUE
    /\ common_file \in {c \in CommonFiles : ~c.readable}
    /\ advanced_lemmas = AdvancedLemmas(FLELex)
    /\ articles = <<>> /\ i = 0
    /\ article_sentences \in SeqsUpTo(SentencePool, MaxSentences)
    /\ all_words = <<>> /\ sample = <<>> /\ k = 1
    /\ word \in {<<"a", "b", "r", "o", "g", "e", "r">>, <<"u", "b", "u", "e", "s", "q", "u", "e">>, <<"A", "b", "r", "o", "g", "e", "r">>}
    /\ definition = placeholder /\ sentence = <<>> /\ result = <<>>
    /\ flashcards = <<>> /\ outfile = Absent /\ calls = <<>> /\ r = NoResponse /\ raised = "none"

NextExample == FindExample

SpecExample == InitExample /\ [][NextExample]_vars

\* clean_and_count_words on one article, in the article loop of run
InitExtract ==
    /\ pc = "article"
    /\ net = DownNet
    /\ feeds = <<>> /\ max_articles = 10
    /\ spacy_ok \in BOOLEAN
    /\ common_file \in CommonFiles
    /\ advanced_lemmas = AdvancedLemmas(FLELex)
    /\ articles \in {<<[text |-> <<>>, doc |-> d]>> : d \in SeqsUpTo(TokenPool, MaxTokens)}
    /\ i = 1
    /\ article_sentences = <<>> /\ all_words = <<>> /\ sample = <<>> /\ k = 0
    /\ word = <<>> /\ definition = <<>> /\ sentence = <<>> /\ result = <<>>
    /\ flashcards = <<>> /\ outfile = Absent /\ calls = <<>> /\ r = NoResponse /\ raised = "none"

NextExtract == ProcessArticle

SpecExtract == InitExtract /\ [][NextExtract]_vars

\* run from the count of the candidates on, over batches large enough for the
\* sample to be capped, under a stub of the network that always answers
InitSampler ==
    /\ pc = "count"
    /\ net = FixedNet
    /\ feeds = <<>> /\ max_articles = 10
    /\ spacy_ok = TRUE
    /\ common_file \in {c \in CommonFiles : ~c.readable}
    /\ advanced_lemmas = AdvancedLemmas(PoolLexicon)
    /\ articles = <<>> /\ i = 0 /\ article_sentences = <<>>
    /\ all_words \in {Batch(u, d) : u \in 0..MaxUniques, d \in 0..MaxDups}
    /\ sample = <<>> /\ k = 0
    /\ word = <<>> /\ definition = <<>> /\ sentence = <<>> /\ result = <<>>
    /\ flashcards = <<>> /\ outfile = Absent /\ calls = <<>> /\ r = NoResponse /\ raised = "none"

NextSampler ==
    \/ NothingToProcess \/ Sample \/ SourceA \/ FindExample \/ Translate \/ WriteFile

SpecSampler == InitSampler /\ [][NextSampler]_vars


-----------------------------------------------------------------------------
(* Properties. *)

\* the chain of sources of fetch_definition, as recorded in calls
Chain == <<"dict", "wiki", "tatoeba", "lexicon">>

IsPrefix(p, q) == Len(p) <= Len(q) /\ SubSeq(q, 1, Len(p)) = p

\* what the source consulted last made of its response
LastOutcome ==
    CASE calls[Len(calls)] = "dict" -> dictionary_api(r)
      [] calls[Len(calls)] = "wiki" -> wiktionary_raw(r)
      [] calls[Len(calls)] = "tatoeba" -> tatoeba_search(r)
      [] calls[Len(calls)] = "lexicon" -> lexicon_lookup(lower(word))

\* the number of times pair x occurs in the whole batch
Occurrences(x) == Cardinality({n \in DOMAIN all_words : all_words[n] = x})

\* the pairs that occur exactly once in the batch
Rarities == {all_words[n] : n \in {m \in DOMAIN all_words : Occurrences(all_words[m]) = 1}}

Min(a, b) == IF a < b THEN a ELSE b

\* w occurs in s when case is ignored
MatchesIgnoringCase(s, w) ==
    \E n \in 0..(Len(s) - Len(w)) :
        \A j \in 1..Len(w) : lower_char(s[n + j]) = lower_char(w[j])

HasLocalMatch == \E n \in DOMAIN article_sentences : MatchesIgnoringCase(article_sentences[n], word)

FirstLocalMatch ==
    CHOOSE n \in DOMAIN article_sentences :
        /\ MatchesIgnoringCase(article_sentences[n], word)
        /\ \A m \in 1..(n - 1) : ~MatchesIgnoringCase(article_sentences[m], word)

\* the five predicates of a candidate, together
PassesAllFive(tok) ==
    /\ tok.is_alpha
    /\ tok.len > 6
    /\ lower(tok.lemma_) \in advanced_lemmas
    /\ tok.pos_ \in {"NOUN", "VERB", "ADJ", "ADV"}
    /\ lower(tok.lemma_) \notin excluded_words

\* C1: whatever the three remote sources answer, a call of fetch_definition
\* returns a string and raises no exception to its caller.
C1_FetchDefinitionNeverRaises == raised = "none"

\* C2: fetch_definition returns the first non-empty result in the order A, B,
\* C, D; an empty result counts as a failure of its source, so the empty string
\* is returned only once all four sources have been consulted.
C2_EmptyOnlyAfterAllSources ==
    (pc = "example" /\ result = <<>>) => calls = Chain

\* C3: with every remote service stubbed to fail, run on one document with one
\* valid candidate completes with exactly one flashcard whose definition and
\* English are the empty string and whose example sentence is not empty.
C3_OneRecordWhenAllRemotesFail ==
    (net = DownNet /\ Len(articles) = 1 /\ Len(all_words) = 1 /\ pc \in {"done", "raised"})
        => /\ pc = "done"
           /\ raised = "none"
           /\ Len(flashcards) = 1
           /\ flashcards[1][2] = <<>>
           /\ flashcards[1][4] = JStr(<<>>)
           /\ flashcards[1][3] # <<>>

\* C4: when run ends with no document, no candidate or no pair that occurs
\* exactly once, it has raised nothing, written no output file and performed no
\* definition, example or translation lookup.
C4_EmptyResultWritesNothing ==
    (pc = "done" /\ (articles = <<>> \/ all_words = <<>> \/ Rarities = {}))
        => (raised = "none" /\ ~outfile.exists /\ calls = <<>>)

\* C5: every pair of the sample, and so the word of every flashcard, occurs
\* exactly once in the whole batch, whatever the random draw.
C5_SampledPairsOccurOnce ==
    /\ \A n \in DOMAIN sample : Occurrences(sample[n]) = 1
    /\ \A n \in DOMAIN flashcards : \E x \in Rarities : x[1] = flashcards[n][1]

C5_Witness ==
    /\ pc = "done"
    /\ Len(sample) > 1
    /\ Len(flashcards) = Len(sample)
    /\ \E n \in DOMAIN all_words : Occurrences(all_words[n]) = 2

\* C6: the sample holds exactly min(30, n) distinct pairs, n being the number of
\* pairs that occur once, in ascending order of lemma; the flashcards and the
\* lines of the output file follow the sample's order.
C6_SampleSizeAndOrder ==
    pc # "count" =>
        /\ Len(sample) = Min(30, Cardinality(Rarities))
        /\ \A a, b \in DOMAIN sample :
               a < b => (sample[a] # sample[b] /\ ~str_less(sample[b][1], sample[a][1]))
        /\ Len(flashcards) <= Len(sample)
        /\ \A n \in DOMAIN flashcards : flashcards[n][1] = sample[n][1]
        /\ outfile.exists =>
               /\ Len(outfile.lines) = Len(sample) + 1
               /\ \A n \in DOMAIN sample :
                      startswith(outfile.lines[n + 1], sample[n][1] \o <<"\t">>)

C6_Witness ==
    /\ pc = "done"
    /\ outfile.exists
    /\ Cardinality(Rarities) > 30
    /\ Len(sample) = 30
    /\ \E a \in DOMAIN sample : a < Len(sample) /\ sample[a][1] = sample[a + 1][1]

\* C7: for a lowercase word, when some accumulated sentence contains the word
\* regardless of case, find_example_sentence returns the first such sentence,
\* trimmed, and does not contact the wiki extract service.
C7_LocalSentenceFirst ==
    (pc = "translate" /\ word = lower(word) /\ HasLocalMatch)
        => /\ sentence = strip(article_sentences[FirstLocalMatch])
           /\ calls = <<>>
           /\ r = NoResponse

C7_Witness ==
    /\ pc = "translate"
    /\ word = lower(word)
    /\ net = AnyNet
    /\ Len(article_sentences) = 2
    /\ ~MatchesIgnoringCase(article_sentences[1], word)
    /\ MatchesIgnoringCase(article_sentences[2], word)
    /\ ~contains(article_sentences[2], word)
    /\ strip(article_sentences[2]) # article_sentences[2]

\* C8: with the tagger available, clean_and_count_words emits (lowercased
\* lemma, pos) for exactly the tokens that pass all five predicates, in the
\* order of the tokens.
C8_CandidateIffAllFive ==
    (pc = "count" /\ spacy_ok) =>
        LET kept == SelectSeq(articles[1].doc, PassesAllFive)
        IN  all_words = [n \in 1..Len(kept) |-> <<lower(kept[n].lemma_), kept[n].pos_>>]

C8_Witness ==
    /\ pc = "count"
    /\ spacy_ok
    /\ common_file.readable
    /\ Len(articles[1].doc) = 3
    /\ ~PassesAllFive(articles[1].doc[2])
    /\ Len(all_words) = 2
    /\ all_words[1] # all_words[2]

\* C9: within one call the sources are consulted in the order A, B, C, D, each
\* at most once, a source only after the one before it has failed; the call
\* returns as soon as a source succeeds, with that source's definition.
C9_SourcesInOrderUntilSuccess ==
    /\ IsPrefix(calls, Chain)
    /\ pc = "srcA" => calls = <<>>
    /\ pc = "srcB" => (calls = SubSeq(Chain, 1, 1) /\ dictionary_api(r).k = "none")
    /\ pc = "srcC" => (calls = SubSeq(Chain, 1, 2) /\ wiktionary_raw(r).k = "none")
    /\ pc = "srcD" => (calls = SubSeq(Chain, 1, 3) /\ tatoeba_search(r).k = "none")
    /\ pc = "example" =>
           (calls # <<>> /\ LastOutcome.k = "return" /\ result = LastOutcome.v)
    /\ pc = "raised" => calls = Chain

C9_Witness ==
    /\ pc = "example"
    /\ net = AnyNet
    /\ calls = <<"dict">>
    /\ result # <<>>

\* C10: for a word with a real definition, a failed translation call (transport
\* error, body that is not JSON or not an object, translatedText missing or
\* null) leaves the record's English field the empty string, and the record is
\* emitted.
C10_FailedTranslationGivesEmptyString ==
    (calls # <<>> /\ calls[Len(calls)] = "translate" /\ r \in TranslateFailures)
        => (flashcards # <<>> /\ flashcards[Len(flashcards)][4] = JStr(<<>>))

====
